---- MODULE Spec2Model ----
(***************************************************************************)
(* Model of the Happy Sweep invoice generator (app.py).                    *)
(*                                                                         *)
(* Text is a sequence of Unicode code points (naturals).  A cell of the    *)
(* uploaded table is a tagged value: text, an integer, or NaN (the value   *)
(* pandas gives an empty cell).  A row is a function from the column       *)
(* names it has to cell values.                                            *)
(***************************************************************************)
EXTENDS Integers, Sequences, FiniteSets, TLC

VARIABLES
    arg,            \* argument of the utility / render call under study
    ret,            \* what that call returned (or the exception it raised)
    call,           \* which function has been called on arg ("none" before)
    session_state,  \* st.session_state: invoices, uploaded_file, logo
    page,           \* what the last script run put on the page
    temp_logo,      \* content of the file "temp_logo.png"
    pc,             \* position of each concurrent generate_invoice call
    embedded        \* image bytes each concurrent call handed to pdf.image

vars == <<arg, ret, call, session_state, page, temp_logo, pc, embedded>>

(***************************************************************************)
(* Bounds of the explored input sets.                                      *)
(***************************************************************************)
MaxCleanLen == 4    \* longest text given to clean_text, over CleanAlphabet
MaxFill == 21       \* longest run of plain characters in a filename input
MaxTail == 1        \* plain characters after the second special character
MaxAmountTokens == 3  \* booking-amount texts are built from at most this many tokens
MaxRows == 2        \* an uploaded table has at most this many rows
MaxMissing == 1     \* a row lacks at most this many of its columns
MaxTokens == 4      \* crew strings are built from at most this many tokens

(***************************************************************************)
(* Values and their text form, str(x).                                     *)
(***************************************************************************)
None == [kind |-> "None"]
NaN == [kind |-> "nan"]
TextVal(s) == [kind |-> "str", s |-> s]
IntVal(n) == [kind |-> "int", n |-> n]

RECURSIVE Digits(_)
Digits(n) == IF n < 10 THEN <<48 + n>> ELSE Digits(n \div 10) \o <<48 + (n % 10)>>

\* str(x) as lines 13 and 17 apply it
str(x) ==
    CASE x.kind = "str" -> x.s
      [] x.kind = "int" -> IF x.n < 0 THEN <<45>> \o Digits(0 - x.n) ELSE Digits(x.n)
      [] x.kind = "nan" -> <<110, 97, 110>>
      [] x.kind = "None" -> <<78, 111, 110, 101>>

(***************************************************************************)
(* clean_text: re.sub(r'[^\x00-\x7F]+', '', str(text))                     *)
(***************************************************************************)
\* the character class [^\x00-\x7F]
NonAscii(c) == ~(c >= 0 /\ c <= 127)

RECURSIVE sub_non_ascii(_)
sub_non_ascii(s) ==
    IF s = <<>> THEN <<>>
    ELSE IF NonAscii(Head(s)) THEN sub_non_ascii(Tail(s))
    ELSE <<Head(s)>> \o sub_non_ascii(Tail(s))

clean_text_keep_all(text) == str(text)

clean_text(text) == sub_non_ascii(str(text))

(***************************************************************************)
(* sanitize_filename: re.sub(r'[\\/*?:"<>|]', "", str(text))[:20]          *)
(***************************************************************************)
\* the character class [\\/*?:"<>|]
UnsafeChars == {92, 47, 42, 63, 58, 34, 60, 62, 124}

RECURSIVE sub_unsafe(_)
sub_unsafe(s) ==
    IF s = <<>> THEN <<>>
    ELSE IF Head(s) \in UnsafeChars THEN sub_unsafe(Tail(s))
    ELSE <<Head(s)>> \o sub_unsafe(Tail(s))

\* the slice s[:n]
Slice(s, n) == IF Len(s) <= n THEN s ELSE SubSeq(s, 1, n)

FilenameLimit == 20

sanitize_filename_truncate_first(text) == sub_unsafe(Slice(str(text), FilenameLimit))

sanitize_filename(text) == Slice(sub_unsafe(str(text)), FilenameLimit)

(***************************************************************************)
(* extract_crew_names                                                      *)
(***************************************************************************)
\* the literal part of r'Excl Happy Sweep HC\d*'
Boilerplate ==
    <<69, 120, 99, 108, 32, 72, 97, 112, 112, 121, 32, 83, 119, 101, 101, 112, 32, 72, 67>>

\* \d; among the code points below 256 only 0-9 are decimal digits
IsDigit(c) == c >= 48 /\ c <= 57

\* str.isspace() for the code points below 256
IsSpace(c) == c \in {9, 10, 11, 12, 13, 28, 29, 30, 31, 32, 133, 160}

StartsWith(s, p) == Len(s) >= Len(p) /\ SubSeq(s, 1, Len(p)) = p

Drop(s, n) == SubSeq(s, n + 1, Len(s))

RECURSIVE SkipDigits(_)
SkipDigits(s) == IF s /= <<>> /\ IsDigit(Head(s)) THEN SkipDigits(Tail(s)) ELSE s

\* re.sub(r'Excl Happy Sweep HC\d*', '', s): one left-to-right pass over s,
\* deleting each leftmost match (the digits greedily) and resuming after it
RECURSIVE sub_boilerplate(_)
sub_boilerplate(s) ==
    IF s = <<>> THEN <<>>
    ELSE IF StartsWith(s, Boilerplate)
         THEN sub_boilerplate(SkipDigits(Drop(s, Len(Boilerplate))))
    ELSE <<Head(s)>> \o sub_boilerplate(Tail(s))

\* s.split(','): always at least one piece
RECURSIVE split_comma(_, _)
split_comma(s, piece) ==
    IF s = <<>> THEN <<piece>>
    ELSE IF Head(s) = 44 THEN <<piece>> \o split_comma(Tail(s), <<>>)
    ELSE split_comma(Tail(s), Append(piece, Head(s)))

RECURSIVE lstrip(_)
lstrip(s) == IF s /= <<>> /\ IsSpace(Head(s)) THEN lstrip(Tail(s)) ELSE s

RECURSIVE rstrip(_)
rstrip(s) ==
    IF s /= <<>> /\ IsSpace(s[Len(s)]) THEN rstrip(SubSeq(s, 1, Len(s) - 1)) ELSE s

strip(s) == rstrip(lstrip(s))

\* ', '.join(pieces)
RECURSIVE join(_)
join(pieces) ==
    IF pieces = <<>> THEN <<>>
    ELSE IF Len(pieces) = 1 THEN pieces[1]
    ELSE pieces[1] \o <<44, 32>> \o join(Tail(pieces))

RECURSIVE stripped_names_keep_empty(_)
stripped_names_keep_empty(pieces) ==
    IF pieces = <<>> THEN <<>>
    ELSE <<strip(Head(pieces))>> \o stripped_names_keep_empty(Tail(pieces))

\* [name.strip() for name in pieces if name.strip()]
RECURSIVE stripped_names(_)
stripped_names(pieces) ==
    IF pieces = <<>> THEN <<>>
    ELSE IF strip(Head(pieces)) /= <<>>
         THEN <<strip(Head(pieces))>> \o stripped_names(Tail(pieces))
    ELSE stripped_names(Tail(pieces))

extract_crew_names(crew_string) ==
    join(stripped_names(split_comma(sub_boilerplate(crew_string), <<>>)))

extract_crew_names_call(crew_string) ==
    IF crew_string.kind = "str"
    THEN [raised |-> "none", value |-> extract_crew_names(crew_string.s)]
    ELSE [raised |-> "TypeError"]

(***************************************************************************)
(* float(x), and the arithmetic of lines 119-120.  A finite float is kept  *)
(* exactly, as a whole number of hundred-thousandths; the texts explored   *)
(* have at most three decimals, no exponent and no underscore, so that     *)
(* a twentieth of every amount is again a whole number of them.            *)
(***************************************************************************)
Num(scaled) == [kind |-> "num", scaled |-> scaled]
Inf(neg) == [kind |-> "inf", neg |-> neg]

RECURSIVE Pow10(_)
Pow10(n) == IF n = 0 THEN 1 ELSE 10 * Pow10(n - 1)

RECURSIVE DigitsValue(_)
DigitsValue(ds) ==
    IF ds = <<>> THEN 0 ELSE 10 * DigitsValue(SubSeq(ds, 1, Len(ds) - 1)) + (ds[Len(ds)] - 48)

RECURSIVE LeadingDigits(_)
LeadingDigits(s) ==
    IF s /= <<>> /\ IsDigit(Head(s)) THEN <<Head(s)>> \o LeadingDigits(Tail(s)) ELSE <<>>

Lower(s) == [i \in 1..Len(s) |-> IF s[i] >= 65 /\ s[i] <= 90 THEN s[i] + 32 ELSE s[i]]

ValueError == [raised |-> "ValueError"]

Returns(v) == [raised |-> "none", value |-> v]

\* float(s) for a str s, the last step first: the digits before and after the
\* point, and what follows them
float_of_parts(neg, whole, frac, after) ==
    IF after = <<>> /\ Len(whole) + Len(frac) >= 1
    THEN Returns(Num((IF neg THEN 0 - 1 ELSE 1)
                     * (DigitsValue(whole) * 100000 + DigitsValue(frac) * Pow10(5 - Len(frac)))))
    ELSE ValueError

float_of_digits(neg, whole, rest) ==
    IF rest /= <<>> /\ Head(rest) = 46
    THEN float_of_parts(neg, whole, LeadingDigits(Tail(rest)),
                        Drop(rest, 1 + Len(LeadingDigits(Tail(rest)))))
    ELSE float_of_parts(neg, whole, <<>>, rest)

float_of_body(neg, body) ==
    IF Lower(body) = <<110, 97, 110>> THEN Returns(NaN)
    ELSE IF Lower(body) \in {<<105, 110, 102>>, <<105, 110, 102, 105, 110, 105, 116, 121>>}
         THEN Returns(Inf(neg))
    ELSE float_of_digits(neg, LeadingDigits(body), Drop(body, Len(LeadingDigits(body))))

float_of_stripped(t) ==
    IF t /= <<>> /\ Head(t) \in {43, 45} THEN float_of_body(Head(t) = 45, Tail(t))
    ELSE float_of_body(FALSE, t)

float_of_str(s) == float_of_stripped(strip(s))

\* float(x) for a cell value x
float(x) ==
    CASE x.kind = "str" -> float_of_str(x.s)
      [] x.kind = "int" -> Returns(Num(x.n * 100000))
      [] x.kind = "nan" -> Returns(NaN)
      [] x.kind = "None" -> [raised |-> "TypeError"]

\* booking_amount * 0.05, as booking_amount / 20
times_vat_rate(a) ==
    CASE a.kind = "num" -> Num(a.scaled \div 20)
      [] a.kind = "nan" -> NaN
      [] a.kind = "inf" -> a

\* booking_amount + vat
plus(a, b) ==
    CASE a.kind = "num" /\ b.kind = "num" -> Num(a.scaled + b.scaled)
      [] a.kind = "nan" \/ b.kind = "nan" -> NaN
      [] a.kind = "inf" /\ b.kind = "inf" -> IF a.neg = b.neg THEN a ELSE NaN
      [] a.kind = "inf" /\ b.kind = "num" -> a
      [] a.kind = "num" /\ b.kind = "inf" -> b

(***************************************************************************)
(* generate_invoice                                                        *)
(***************************************************************************)
Fields ==
    {"Reference No", "Client Name", "Client ID", "Client Address", "Client Region",
     "Starting At", "Ending At", "Appointment Attributes", "Assigned Crew Member",
     "Booking Amount", "Payment Method"}

\* the columns read as row['...'], in the order the function reads them
Subscripted ==
    <<"Reference No", "Client Name", "Client ID", "Client Address", "Client Region",
      "Starting At", "Ending At", "Booking Amount", "Payment Method">>

\* row.get(key, default)
get(row, key, default) == IF key \in DOMAIN row THEN row[key] ELSE default

\* the first column whose row['...'] raises KeyError, or "" when none does
RECURSIVE first_missing(_, _)
first_missing(row, keys) ==
    IF keys = <<>> THEN ""
    ELSE IF Head(keys) \notin DOMAIN row THEN Head(keys)
    ELSE first_missing(row, Tail(keys))

\* image bytes: whether pdf.image can decode them, and which picture they are
Image(ok, id) == [decodable |-> ok, id |-> id]

EmptyBytes == Image(FALSE, 0)

NA == TextVal(<<78, 47, 65>>)

reference_no_unsanitized(row) == str(row["Reference No"])

\* line 70
reference_no_of(row) == sanitize_filename(row["Reference No"])

\* line 141
filename_of(reference_no) ==
    <<73, 110, 118, 111, 105, 99, 101, 95>> \o reference_no \o <<46, 112, 100, 102>>

\* lines 116-117
except_value_error(f) == IF f.raised = "ValueError" THEN Returns(Num(0)) ELSE f

\* lines 114-117
booking_amount_of(row) == except_value_error(float(row["Booking Amount"]))

\* lines 119-142
render_lines(row, image, reference_no, booking_amount, vat) ==
    [raised |-> "none",
     filename |-> filename_of(reference_no),
     pdf_output |->
         [logo |-> image.id,
          invoice_number |-> clean_text(TextVal(reference_no)),
          date |-> clean_text(get(row, "Starting At", NA)),
          client_name |-> clean_text(row["Client Name"]),
          client_id |-> clean_text(row["Client ID"]),
          address |-> clean_text(row["Client Address"]),
          region |-> clean_text(row["Client Region"]),
          service_start |-> clean_text(row["Starting At"]),
          service_end |-> clean_text(row["Ending At"]),
          attributes |-> clean_text(get(row, "Appointment Attributes", NA)),
          assigned_crew |->
              extract_crew_names(clean_text(get(row, "Assigned Crew Member", NA))),
          booking_amount |-> booking_amount,
          vat |-> vat,
          total |-> plus(booking_amount, vat),
          payment_method |-> clean_text(row["Payment Method"])]]

\* lines 70-142, given what lines 114-117 gave
render_fields(row, image, reference_no, amount) ==
    IF amount.raised /= "none" THEN [raised |-> amount.raised, at |-> "Booking Amount"]
    ELSE render_lines(row, image, reference_no, amount.value, times_vat_rate(amount.value))

\* lines 47-142, given the bytes pdf.image finds in temp_logo.png
render(row, image) ==
    IF ~image.decodable THEN [raised |-> "RuntimeError", at |-> "temp_logo.png"]
    ELSE IF first_missing(row, Subscripted) /= ""
         THEN [raised |-> "KeyError", at |-> first_missing(row, Subscripted)]
    ELSE render_fields(row, image, reference_no_of(row), booking_amount_of(row))

\* one sequential call: lines 42-44 write logo_bytes to temp_logo.png, and
\* line 47 reads the same bytes back
generate_invoice(row, logo_bytes) == render(row, logo_bytes)

(***************************************************************************)
(* The Streamlit script, lines 149-219: one run per user interaction.      *)
(***************************************************************************)
\* truth value of st.session_state.logo: None and b'' are false
Truthy(bytes) == bytes /= None /\ bytes /= EmptyBytes

\* a loop that skips a row whose render raises
RECURSIVE generate_loop_skipping(_, _, _)
generate_loop_skipping(rows, logo, invoices) ==
    IF rows = <<>> THEN [raised |-> "none", invoices |-> invoices, calls |-> Len(invoices)]
    ELSE LET r == generate_invoice(Head(rows), logo)
         IN  IF r.raised /= "none" THEN generate_loop_skipping(Tail(rows), logo, invoices)
             ELSE generate_loop_skipping(Tail(rows), logo,
                                         Append(invoices, <<r.filename, r.pdf_output>>))

\* lines 176-186: the rows in order; the first render that raises ends the loop
\* and the exception leaves the script.  calls counts the calls made.
RECURSIVE generate_loop(_, _, _)
\* lines 179-180, r being what generate_invoice did
loop_step(rows, logo, invoices, r) ==
    IF r.raised /= "none"
    THEN [raised |-> r.raised, invoices |-> invoices, calls |-> Len(invoices) + 1]
    ELSE generate_loop(Tail(rows), logo, Append(invoices, <<r.filename, r.pdf_output>>))

generate_loop(rows, logo, invoices) ==
    IF rows = <<>> THEN [raised |-> "none", invoices |-> invoices, calls |-> Len(invoices)]
    ELSE loop_step(rows, logo, invoices, generate_invoice(Head(rows), logo))

\* an archive that keeps one entry per name, the last one written
RECURSIVE writestr_replacing(_, _)
writestr_replacing(zipf, invoices) ==
    IF invoices = <<>> THEN zipf
    ELSE LET entry == [name |-> Head(invoices)[1], data |-> Head(invoices)[2]]
             others(e) == e.name /= entry.name
         IN  writestr_replacing(Append(SelectSeq(zipf, others), entry), Tail(invoices))

\* lines 197-198: zipf.writestr appends an entry, also under a name already there
RECURSIVE writestr_all(_, _)
writestr_all(zipf, invoices) ==
    IF invoices = <<>> THEN zipf
    ELSE writestr_all(Append(zipf, [name |-> Head(invoices)[1], data |-> Head(invoices)[2]]),
                      Tail(invoices))

\* what the page offers under "Download All Invoices (ZIP)"
NoArchive == [built |-> FALSE]
Archive(entries) == [built |-> TRUE, entries |-> entries]

downloads_always(invoices) == TRUE

\* line 194: the truth value of the list
downloads_shown(invoices) == invoices /= <<>>

\* lines 211-217
individual_downloads(invoices) == [i \in 1..Len(invoices) |-> invoices[i][1]]

\* lines 193-219: what the run shows, the last step of the script.  An
\* exception ends the run where it is raised: nothing after line 179 executes.
page_of(ready, generating, calls, exception, invoices) ==
    [button |-> ready,
     generating |-> generating,
     calls |-> calls,
     exception |-> exception,
     success |-> generating /\ exception = "none",
     archive |-> IF exception = "none" /\ downloads_shown(invoices)
                 THEN Archive(writestr_all(<<>>, invoices)) ELSE NoArchive,
     downloads |-> IF exception = "none" /\ downloads_shown(invoices)
                   THEN individual_downloads(invoices) ELSE <<>>]

\* lines 188-219 after the loop of a generation run
after_loop(ss, file, logo, uploaded_file, loop, invoices) ==
    [session_state |-> [invoices |-> invoices, uploaded_file |-> uploaded_file, logo |-> logo],
     page |-> page_of(TRUE, TRUE, loop.calls, loop.raised, invoices),
     temp_logo |-> IF loop.calls > 0 THEN logo ELSE file]

\* lines 172-219 of a generation run
generation(ss, file, logo, uploaded_file, loop) ==
    after_loop(ss, file, logo, uploaded_file, loop,
               IF loop.raised = "none" THEN loop.invoices ELSE ss.invoices)

\* lines 193-219 of a run that generates nothing
no_generation(ss, file, logo, uploaded_file, ready) ==
    [session_state |->
         [invoices |-> ss.invoices, uploaded_file |-> uploaded_file, logo |-> logo],
     page |-> page_of(ready, FALSE, 0, "none", ss.invoices),
     temp_logo |-> file]

\* lines 167-219
after_uploads(ss, file, logo, uploaded_file, clicked) ==
    IF uploaded_file /= None /\ Truthy(logo) /\ clicked
    THEN generation(ss, file, logo, uploaded_file, generate_loop(uploaded_file.rows, logo, <<>>))
    ELSE no_generation(ss, file, logo, uploaded_file, uploaded_file /= None /\ Truthy(logo))

\* One run of the script on session state ss, with temp_logo.png holding
\* file, the two uploaders holding logo_widget and file_widget and the button
\* clicked or not: the session state and the file it leaves and the page it
\* shows.
script(ss, file, logo_widget, file_widget, clicked) ==
    after_uploads(ss, file,
                  IF logo_widget /= None THEN logo_widget ELSE ss.logo,
                  IF file_widget /= None THEN file_widget ELSE ss.uploaded_file,
                  clicked)

(***************************************************************************)
(* Utility functions applied to bounded sets of inputs.                    *)
(***************************************************************************)
SeqsUpTo(S, n) == UNION {[1..k -> S] : k \in 0..n}

RECURSIVE Concat(_)
Concat(ss) == IF ss = <<>> THEN <<>> ELSE Head(ss) \o Concat(Tail(ss))

\* 'A', space, BEL, DEL, e-acute, the euro sign
CleanAlphabet == {65, 32, 7, 127, 233, 8364}

CleanInputs == {TextVal(s) : s \in SeqsUpTo(CleanAlphabet, MaxCleanLen)}

\* n plain characters, all different from their neighbours
Fill(n) == [i \in 1..n |-> 97 + (i % 26)]

Specials == {<<c>> : c \in UnsafeChars \cup {233}} \cup {<<>>}

FilenameInputs ==
    {TextVal(a \o Fill(n) \o b \o Fill(m)) :
        a \in Specials, b \in Specials, n \in 0..MaxFill, m \in 0..MaxTail}
    \cup {IntVal(1234), IntVal(0 - 7), NaN}

\* "Excl Happy S", "weep HC", the boilerplate, "3", ",", " ", "Jo", "Al"
CrewTokens ==
    {SubSeq(Boilerplate, 1, 12), SubSeq(Boilerplate, 13, 19), Boilerplate,
     <<51>>, <<44>>, <<32>>, <<74, 111>>, <<65, 108>>}

CrewInputs == {TextVal(Concat(ts)) : ts \in SeqsUpTo(CrewTokens, MaxTokens)}

TextInputs == CleanInputs \cup FilenameInputs \cup CrewInputs

Idle ==
    /\ session_state = [invoices |-> <<>>, uploaded_file |-> None, logo |-> None]
    /\ page = [shown |-> FALSE]
    /\ temp_logo = None
    /\ pc = <<>>
    /\ embedded = <<>>

InitText ==
    /\ arg \in TextInputs
    /\ ret = None
    /\ call = "none"
    /\ Idle

CallCleanText ==
    /\ call = "none"
    /\ call' = "clean_text"
    /\ ret' = [raised |-> "none", value |-> clean_text(arg)]
    /\ UNCHANGED <<arg, session_state, page, temp_logo, pc, embedded>>

CallSanitizeFilename ==
    /\ call = "none"
    /\ call' = "sanitize_filename"
    /\ ret' = [raised |-> "none", value |-> sanitize_filename(arg)]
    /\ UNCHANGED <<arg, session_state, page, temp_logo, pc, embedded>>

CallExtractCrewNames ==
    /\ call = "none"
    /\ call' = "extract_crew_names"
    /\ ret' = extract_crew_names_call(arg)
    /\ UNCHANGED <<arg, session_state, page, temp_logo, pc, embedded>>

NextText == CallCleanText \/ CallSanitizeFilename \/ CallExtractCrewNames

SpecText == InitText /\ [][NextText]_vars

(***************************************************************************)
(* Properties of the utility functions (SpecText).                         *)
(***************************************************************************)
Chars(s) == {s[i] : i \in 1..Len(s)}

Contains(s, p) == \E i \in 1..(Len(s) - Len(p) + 1) : SubSeq(s, i, i + Len(p) - 1) = p

Printable(c) == c >= 32 /\ c <= 126

SevenBit(c) == c >= 0 /\ c <= 127

Safe(c) == c \notin UnsafeChars

\* C8 as stated: clean_text(text) contains only printable 7-bit characters
\* (every non-ASCII and every control character is removed).
C8_OnlyPrintable ==
    call = "clean_text" => \A c \in Chars(ret.value) : Printable(c)

\* C8 amended: clean_text(text) contains only 7-bit characters (code points
\* 0..127): every non-ASCII character is removed, every 7-bit character,
\* control characters included, is kept, and the kept characters are in
\* their original order.
C8_OnlySevenBit ==
    call = "clean_text" =>
        /\ ret.raised = "none"
        /\ \A c \in Chars(ret.value) : SevenBit(c)
        /\ ret.value = SelectSeq(str(arg), SevenBit)

C8_Witness ==
    /\ call = "clean_text"
    /\ \E c \in Chars(str(arg)) : ~SevenBit(c)
    /\ \E c \in Chars(ret.value) : ~Printable(c)
    /\ Len(ret.value) >= 2

\* C7: sanitize_filename(text) never raises, contains none of \ / * ? : " < > |,
\* has length at most 20, and equals the first 20 characters of the text form
\* of the input with those nine characters deleted.
C7_SanitizeFilename ==
    call = "sanitize_filename" =>
        /\ ret.raised = "none"
        /\ \A c \in Chars(ret.value) : Safe(c)
        /\ Len(ret.value) <= 20
        /\ LET kept == SelectSeq(str(arg), Safe)
           IN  /\ Len(ret.value) = IF Len(kept) < 20 THEN Len(kept) ELSE 20
               /\ \A i \in 1..Len(ret.value) : ret.value[i] = kept[i]

C7_Witness ==
    /\ call = "sanitize_filename"
    /\ Len(str(arg)) > 20
    /\ ~Safe(str(arg)[1])
    /\ Len(ret.value) = 20
    /\ ret.value[20] = str(arg)[21]

\* the pieces between the commas of s, each trimmed
Segments(s) == [i \in 1..Len(split_comma(s, <<>>)) |-> strip(split_comma(s, <<>>)[i])]

NonEmpty(s) == s /= <<>>

\* s is made of nothing but boilerplate (with its digits), commas and white space
RECURSIVE OnlyBoilerplateAndSeparators(_)
OnlyBoilerplateAndSeparators(s) ==
    IF s = <<>> THEN TRUE
    ELSE IF StartsWith(s, Boilerplate)
         THEN OnlyBoilerplateAndSeparators(SkipDigits(Drop(s, Len(Boilerplate))))
    ELSE (Head(s) = 44 \/ IsSpace(Head(s))) /\ OnlyBoilerplateAndSeparators(Tail(s))

\* no leading or trailing separator, no empty segment
WellSeparated(s) ==
    s = <<>> \/
        /\ ~IsSpace(s[1]) /\ s[1] /= 44
        /\ ~IsSpace(s[Len(s)]) /\ s[Len(s)] /= 44
        /\ \A i \in 1..Len(Segments(s)) : Segments(s)[i] /= <<>>
        /\ \A i \in 1..(Len(s) - 1) : s[i] = 44 => s[i + 1] = 32

Logo1 == Image(TRUE, 1)
Logo2 == Image(TRUE, 2)
Corrupt == Image(FALSE, 3)

\* "INV-001", "INV/001", "INV-e'1" with e-acute, 25 plain characters, 1001, empty cell
RefInputs ==
    {TextVal(<<73, 78, 86, 45, 48, 48, 49>>), TextVal(<<73, 78, 86, 47, 48, 48, 49>>),
     TextVal(<<73, 78, 86, 45, 233, 49>>), TextVal(Fill(25)), IntVal(1001), NaN}

\* "1", "5", ".", "-", " ", "abc", "nan"
AmountTokens == {<<49>>, <<53>>, <<46>>, <<45>>, <<32>>, <<97, 98, 99>>, <<110, 97, 110>>}

AmountInputs ==
    {TextVal(Concat(ts)) : ts \in SeqsUpTo(AmountTokens, MaxAmountTokens)}
    \cup {IntVal(200), IntVal(0 - 3), NaN}

\* "100", "abc", empty cell
SampleAmounts == {TextVal(<<49, 48, 48>>), TextVal(<<97, 98, 99>>), NaN}

MissingSets == {M \in SUBSET Fields : Cardinality(M) <= MaxMissing}

\* a row of the table: the given reference and amount, sample text in the
\* other columns, and the columns of `missing` absent
Row(reference, amount, missing) ==
    [f \in Fields \ missing |->
        CASE f = "Reference No" -> reference
          [] f = "Booking Amount" -> amount
          [] f = "Client Name" -> TextVal(<<90, 111, 235>>)
          [] f = "Client ID" -> IntVal(17)
          [] f = "Assigned Crew Member" ->
                 TextVal(<<74, 111, 44, 32>> \o Boilerplate \o <<51>>)
          [] f = "Ending At" -> NaN
          [] OTHER -> TextVal(<<65, 7, 66>>)]

RenderInputs ==
    {Row(r, a, M) : r \in RefInputs, a \in SampleAmounts, M \in MissingSets}
    \cup {Row(TextVal(<<73, 78, 86, 45, 48, 48, 49>>), a, {}) : a \in AmountInputs}

InitRender ==
    /\ arg \in [row : RenderInputs, logo_bytes : {Logo1, Corrupt}]
    /\ ret = None
    /\ call = "none"
    /\ Idle

CallGenerateInvoice ==
    /\ call = "none"
    /\ call' = "generate_invoice"
    /\ ret' = generate_invoice(arg.row, arg.logo_bytes)
    /\ temp_logo' = arg.logo_bytes
    /\ UNCHANGED <<arg, session_state, page, pc, embedded>>

NextRender == CallGenerateInvoice

SpecRender == InitRender /\ [][NextRender]_vars

Rendered == call = "generate_invoice" /\ arg.logo_bytes.decodable

\* C3: a row that lacks a named column is rendered with that field as empty
\* text; generate_invoice returns its (filename, bytes) pair and raises nothing.
C3_MissingFieldIsEmptyText ==
    (Rendered /\ DOMAIN arg.row /= Fields /\ {"Reference No", "Booking Amount"} \subseteq DOMAIN arg.row) =>
        /\ ret.raised = "none"
        /\ "Client Name" \notin DOMAIN arg.row => ret.pdf_output.client_name = <<>>
        /\ "Client ID" \notin DOMAIN arg.row => ret.pdf_output.client_id = <<>>
        /\ "Client Address" \notin DOMAIN arg.row => ret.pdf_output.address = <<>>
        /\ "Client Region" \notin DOMAIN arg.row => ret.pdf_output.region = <<>>
        /\ "Starting At" \notin DOMAIN arg.row => ret.pdf_output.service_start = <<>>
        /\ "Ending At" \notin DOMAIN arg.row => ret.pdf_output.service_end = <<>>
        /\ "Appointment Attributes" \notin DOMAIN arg.row => ret.pdf_output.attributes = <<>>
        /\ "Assigned Crew Member" \notin DOMAIN arg.row => ret.pdf_output.assigned_crew = <<>>
        /\ "Payment Method" \notin DOMAIN arg.row => ret.pdf_output.payment_method = <<>>

\* the booking amount as a decimal number, when the cell holds one
IsDecimal(x) == float(x).raised = "none" /\ float(x).value.kind = "num"

\* C4: a Booking Amount that cannot be parsed as a decimal number (non-numeric
\* or empty text, a missing or null value) is rendered as amount 0, vat 0 and
\* total 0 without raising; a parsable amount a gives vat = a * 0.05 and
\* total = a + vat.
C4_BookingAmount ==
    (Rendered /\ Fields \ {"Booking Amount"} \subseteq DOMAIN arg.row) =>
        LET cell == get(arg.row, "Booking Amount", NaN)
            a == float(cell).value.scaled
        IN  /\ ret.raised = "none"
            /\ IF IsDecimal(cell)
               THEN /\ ret.pdf_output.booking_amount = Num(a)
                    /\ a % 20 = 0
                    /\ ret.pdf_output.vat = Num(a \div 20)
                    /\ ret.pdf_output.total = Num(a + a \div 20)
               ELSE /\ ret.pdf_output.booking_amount = Num(0)
                    /\ ret.pdf_output.vat = Num(0)
                    /\ ret.pdf_output.total = Num(0)

\* C6 as stated: the filename is "Invoice_" + sanitize_filename(Reference No)
\* + ".pdf", and the Invoice Number line shows that same sanitized string.
C6_SameReference ==
    (Rendered /\ ret.raised = "none") =>
        /\ ret.filename = filename_of(sanitize_filename(arg.row["Reference No"]))
        /\ ret.pdf_output.invoice_number = sanitize_filename(arg.row["Reference No"])

\* C6 amended: the filename is "Invoice_" + sanitize_filename(Reference No) +
\* ".pdf"; the Invoice Number line shows that sanitized string with its
\* non-ASCII characters removed, so it is the same string exactly when the
\* sanitized reference is all 7-bit.
C6_ReferenceCleaned ==
    (Rendered /\ ret.raised = "none") =>
        LET kept == SelectSeq(str(arg.row["Reference No"]), Safe)
            sanitized == IF Len(kept) <= 20 THEN kept ELSE SubSeq(kept, 1, 20)
        IN  /\ ret.filename =
                   <<73, 110, 118, 111, 105, 99, 101, 95>> \o sanitized \o <<46, 112, 100, 102>>
            /\ ret.pdf_output.invoice_number = SelectSeq(sanitized, SevenBit)
            /\ (ret.pdf_output.invoice_number = sanitized)
                   <=> (\A c \in Chars(sanitized) : SevenBit(c))

C6_Witness ==
    /\ Rendered
    /\ ret.raised = "none"
    /\ \E c \in Chars(str(arg.row["Reference No"])) : ~SevenBit(c)
    /\ Len(ret.pdf_output.invoice_number) + 13 = Len(ret.filename)

(***************************************************************************)
(* The application (Spec): uploads, reruns and clicks on Generate.         *)
(***************************************************************************)
\* "INV-001" with amount "100"; "INV-/001", which sanitizes to the same name,
\* with amount "abc"; "INV-002" without its Client Name column
AppRows ==
    {Row(TextVal(<<73, 78, 86, 45, 48, 48, 49>>), TextVal(<<49, 48, 48>>), {}),
     Row(TextVal(<<73, 78, 86, 45, 47, 48, 48, 49>>), TextVal(<<97, 98, 99>>), {}),
     Row(TextVal(<<73, 78, 86, 45, 48, 48, 50>>), NaN, {"Client Name"})}

Tables == {[rows |-> rs] : rs \in SeqsUpTo(AppRows, MaxRows)}

AppLogos == {Logo1, Corrupt, EmptyBytes}

Init ==
    /\ session_state = [invoices |-> <<>>, uploaded_file |-> None, logo |-> None]
    /\ page = script(session_state, None, None, None, FALSE).page
    /\ temp_logo = None
    /\ arg = None
    /\ ret = None
    /\ call = "none"
    /\ pc = <<>>
    /\ embedded = <<>>

Run(logo_widget, file_widget, clicked) ==
    \E out \in {script(session_state, temp_logo, logo_widget, file_widget, clicked)} :
        /\ session_state' = out.session_state
        /\ page' = out.page
        /\ temp_logo' = out.temp_logo
        /\ UNCHANGED <<arg, ret, call, pc, embedded>>

\* the user changes an uploader (or anything else that reruns the script)
Rerun ==
    \E logo_widget \in AppLogos \cup {None}, file_widget \in Tables \cup {None} :
        Run(logo_widget, file_widget, FALSE)

\* the user clicks "Generate Invoices", which the last run put on the page; the
\* uploaders hold what they held in that run, or nothing
ClickGenerate ==
    /\ page.button
    /\ \E logo_widget \in {session_state.logo, None},
          file_widget \in {session_state.uploaded_file, None} :
            Run(logo_widget, file_widget, TRUE)

Next == Rerun \/ ClickGenerate

Spec == Init /\ [][Next]_vars

\* the table and the logo of the generation run that produced the page
RunRows == session_state.uploaded_file.rows

RunLogo == session_state.logo

Fails(i) == generate_invoice(RunRows[i], RunLogo).raised /= "none"

\* C1: after a completed generation run over N records the archive has exactly
\* N entries, one per record in row order, the i-th being the (filename, bytes)
\* pair rendered from the i-th record; with N >= 1 the archive is assembled.
C1_ArchiveEntries ==
    (page.generating /\ page.exception = "none") =>
        /\ Len(RunRows) >= 1 => page.archive.built
        /\ page.archive.built =>
            /\ Len(page.archive.entries) = Len(RunRows)
            /\ \A i \in 1..Len(RunRows) :
                /\ page.archive.entries[i].name =
                       generate_invoice(RunRows[i], RunLogo).filename
                /\ page.archive.entries[i].data =
                       generate_invoice(RunRows[i], RunLogo).pdf_output

C1_Witness ==
    /\ page.generating
    /\ page.exception = "none"
    /\ Len(RunRows) = 2
    /\ page.archive.built
    /\ Len(page.archive.entries) = 2
    /\ page.archive.entries[1].name = page.archive.entries[2].name
    /\ page.archive.entries[1].data /= page.archive.entries[2].data

\* C2: if the render of a record raises, the generation request fails with
\* that exception: the run stops at the first such record, no later record is
\* rendered, and the page of that run offers no archive and no download,
\* whatever an earlier run left in the session.
C2_FailFast ==
    (page.generating /\ \E i \in 1..Len(RunRows) : Fails(i)) =>
        LET first == CHOOSE i \in 1..Len(RunRows) : Fails(i) /\ \A j \in 1..(i - 1) : ~Fails(j)
        IN  /\ page.exception = generate_invoice(RunRows[first], RunLogo).raised
            /\ page.calls = first
            /\ ~page.success
            /\ ~page.archive.built
            /\ page.downloads = <<>>

C2_Witness ==
    /\ page.generating
    /\ page.exception = "KeyError"
    /\ Len(RunRows) = 2
    /\ page.calls = 1
    /\ session_state.invoices /= <<>>
    /\ ~page.archive.built

\* C5 as stated: generating from zero records is not an error and an empty
\* archive (zero entries) is built and offered for download.
C5_EmptyArchiveOffered ==
    (page.generating /\ RunRows = <<>>) =>
        /\ page.exception = "none"
        /\ page.archive = Archive(<<>>)

\* C5 amended: generating from zero records is not an error: it yields an
\* empty batch and reports success, and no archive is built or offered (the
\* download section is shown only for a non-empty batch).
C5_EmptyBatchNoArchive ==
    (page.generating /\ RunRows = <<>>) =>
        /\ page.exception = "none"
        /\ page.success
        /\ page.calls = 0
        /\ session_state.invoices = <<>>
        /\ ~page.archive.built
        /\ page.downloads = <<>>

C5_Witness ==
    /\ page.generating
    /\ RunRows = <<>>
    /\ page.success
    /\ ~page.archive.built
    /\ temp_logo /= None

(***************************************************************************)
(* Two generate_invoice calls running at once (SpecRace), as two sessions  *)
(* of the app do: lines 42-47 of each call interleave with the other's.    *)
(***************************************************************************)
Procs == {1, 2}

RaceRows ==
    {Row(TextVal(<<73, 78, 86, 45, 48, 48, 49>>), TextVal(<<49, 48, 48>>), {}),
     Row(TextVal(<<73, 78, 86, 45, 48, 48, 50>>), IntVal(200), {})}

InitRace ==
    /\ arg \in {a \in [Procs -> [row : RaceRows, logo_bytes : {Logo1, Logo2, Corrupt}]] :
                   a[1].logo_bytes /= a[2].logo_bytes}
    /\ ret = [p \in Procs |-> None]
    /\ pc = [p \in Procs |-> "open"]
    /\ embedded = [p \in Procs |-> None]
    /\ temp_logo = None
    /\ call = "none"
    /\ session_state = [invoices |-> <<>>, uploaded_file |-> None, logo |-> None]
    /\ page = [shown |-> FALSE]

\* line 43: open("temp_logo.png", "wb") creates the file or truncates it
OpenLogoFile(p) ==
    /\ pc[p] = "open"
    /\ temp_logo' = EmptyBytes
    /\ pc' = [pc EXCEPT ![p] = "write"]
    /\ UNCHANGED <<arg, ret, call, session_state, page, embedded>>

\* lines 43-44: the bytes reach the file when the with block closes it; the
\* file then decodes as this call's picture (bytes another call left behind
\* this call's can only follow the end of its image)
WriteLogoFile(p) ==
    /\ pc[p] = "write"
    /\ temp_logo' = arg[p].logo_bytes
    /\ pc' = [pc EXCEPT ![p] = "image"]
    /\ UNCHANGED <<arg, ret, call, session_state, page, embedded>>

\* line 47 reads whatever temp_logo.png holds now; lines 49-142 follow
EmbedAndRender(p) ==
    /\ pc[p] = "image"
    /\ embedded' = [embedded EXCEPT ![p] = temp_logo]
    /\ ret' = [ret EXCEPT ![p] = render(arg[p].row, temp_logo)]
    /\ pc' = [pc EXCEPT ![p] = IF ret'[p].raised = "none" THEN "done" ELSE "raised"]
    /\ UNCHANGED <<arg, call, session_state, page, temp_logo>>

NextRace == \E p \in Procs : OpenLogoFile(p) \/ WriteLogoFile(p) \/ EmbedAndRender(p)

SpecRace == InitRace /\ [][NextRace]_vars

\* C10: two concurrent generate_invoice calls with different logo bytes each
\* embed exactly the logo bytes passed to them, never bytes written by the
\* other call.
C10_OwnLogoEmbedded ==
    \A p \in DOMAIN pc :
        pc[p] \in {"done", "raised"} => embedded[p] = arg[p].logo_bytes

====
